---- MODULE Spec2Model ----
(***************************************************************************)
(* A model of the video cutter: the time/segment parser of                 *)
(* video_cutter.py, the cut/concat/cleanup sequence of cut_video_segments, *)
(* and the front ends that call them (video_cutter.main, the interactive   *)
(* CLI's main and the GUI's start_processing / process_video).             *)
(*                                                                         *)
(* Strings are sequences of one-character strings.  Times are carried as   *)
(* integers in units of 1/Scale of a second (Scale = 10^FracDigits), so    *)
(* that the fractional seconds float() accepts keep their value and their  *)
(* order; every input the model draws has at most FracDigits fractional    *)
(* digits.                                                                 *)
(***************************************************************************)
EXTENDS Integers, Sequences, FiniteSets, TLC

\* ------------------------------------------------------------------ bounds

\* longest time string typed character by character
MaxTimeLen == 5
\* most '|'-separated tokens typed into one segment string
MaxTokens == 3
\* fractional digits of a seconds field that are carried exactly
FracDigits == 1

\* ------------------------------------------------------- strings (helpers)

Digits == {"0", "1", "2", "3", "4", "5", "6", "7", "8", "9"}

DigitValue(c) ==
  CASE c = "0" -> 0 [] c = "1" -> 1 [] c = "2" -> 2 [] c = "3" -> 3
    [] c = "4" -> 4 [] c = "5" -> 5 [] c = "6" -> 6 [] c = "7" -> 7
    [] c = "8" -> 8 [] c = "9" -> 9

RECURSIVE Pow10(_)
Pow10(n) == IF n = 0 THEN 1 ELSE 10 * Pow10(n - 1)

Scale == Pow10(FracDigits)

\* str.strip(): leading and trailing whitespace removed
RECURSIVE LStrip(_)
LStrip(s) == IF s # <<>> /\ Head(s) = " " THEN LStrip(Tail(s)) ELSE s

RECURSIVE RStrip(_)
RStrip(s) ==
  IF s # <<>> /\ s[Len(s)] = " " THEN RStrip(SubSeq(s, 1, Len(s) - 1)) ELSE s

Strip(s) == LStrip(RStrip(s))

\* index of the first occurrence of character c in s, 0 when there is none
RECURSIVE IndexFrom(_, _, _)
IndexFrom(s, c, i) ==
  IF i > Len(s) THEN 0 ELSE IF s[i] = c THEN i ELSE IndexFrom(s, c, i + 1)

Find(s, c) == IndexFrom(s, c, 1)

\* str.split(sep): every separator cuts; "" gives [""], "a||b" gives ["a","","b"]
RECURSIVE Split(_, _)
Split(s, sep) ==
  LET i == Find(s, sep)
  IN IF i = 0 THEN <<s>>
     ELSE <<SubSeq(s, 1, i - 1)>> \o Split(SubSeq(s, i + 1, Len(s)), sep)

\* str.split(sep, 1): cut at the first separator only (s contains sep)
SplitFirst(s, sep) ==
  LET i == Find(s, sep)
  IN <<SubSeq(s, 1, i - 1), SubSeq(s, i + 1, Len(s))>>

AllDigits(s) == \A i \in 1..Len(s) : s[i] \in Digits

\* value of a digit string read in base 10 (0 for the empty string)
RECURSIVE Decimal(_)
Decimal(s) ==
  IF s = <<>> THEN 0
  ELSE 10 * Decimal(SubSeq(s, 1, Len(s) - 1)) + DigitValue(s[Len(s)])

\* the first n digits of a fraction, right-padded with zeros, as an integer
RECURSIVE FracValue(_, _)
FracValue(s, n) ==
  IF n = 0 THEN 0
  ELSE IF s = <<>> THEN 0
  ELSE DigitValue(Head(s)) * Pow10(n - 1) + FracValue(Tail(s), n - 1)

Ok(v) == [ok |-> TRUE, val |-> v]
Raise(type, msg, arg) == [ok |-> FALSE, err |-> [type |-> type, msg |-> msg, arg |-> arg]]

Signed(t) == t # <<>> /\ Head(t) \in {"+", "-"}
Unsigned(t) == IF Signed(t) THEN Tail(t) ELSE t
SignOf(t) == IF Signed(t) /\ Head(t) = "-" THEN -1 ELSE 1

\* int() of a field already stripped: an optional sign, then one or more digits
IntLiteral(t, field) ==
  IF Unsigned(t) # <<>> /\ AllDigits(Unsigned(t))
  THEN Ok(SignOf(t) * Decimal(Unsigned(t)))
  ELSE Raise("ValueError", "invalid literal for int()", field)

\* int(field): surrounding whitespace is ignored
ParseInt(field) == IntLiteral(Strip(field), field)

\* digits, an optional '.' at index dot (0: none), digits; one digit at least
FloatBody(t, body, dot, field) ==
  IF /\ AllDigits(IF dot = 0 THEN body ELSE SubSeq(body, 1, dot - 1))
     /\ AllDigits(IF dot = 0 THEN <<>> ELSE SubSeq(body, dot + 1, Len(body)))
     /\ Len(body) > (IF dot = 0 THEN 0 ELSE 1)
  THEN Ok(SignOf(t)
            * (Decimal(IF dot = 0 THEN body ELSE SubSeq(body, 1, dot - 1)) * Scale
               + FracValue(IF dot = 0 THEN <<>> ELSE SubSeq(body, dot + 1, Len(body)),
                           FracDigits)))
  ELSE Raise("ValueError", "could not convert string to float", field)

\* float() of a field already stripped: an optional sign, then the body
FloatLiteral(t, field) == FloatBody(t, Unsigned(t), Find(Unsigned(t), "."), field)

\* float(field): surrounding whitespace is ignored; the value in 1/Scale
ParseFloat(field) == FloatLiteral(Strip(field), field)

\* ------------------------------------------------ parse_time_to_seconds

\* int(minutes) * 60 + float(seconds)
MSToSeconds(minutes, seconds) == minutes * 60 * Scale + seconds

HMSToSeconds_HoursAsMinutes(hours, minutes, seconds) ==
  hours * 60 * Scale + minutes * 60 * Scale + seconds

\* int(hours) * 3600 + int(minutes) * 60 + float(seconds)
HMSToSeconds(hours, minutes, seconds) ==
  hours * 3600 * Scale + minutes * 60 * Scale + seconds

\* the conversions run left to right and the first that raises wins
Line29(minutes, seconds) ==
  IF ~minutes.ok THEN minutes
  ELSE IF ~seconds.ok THEN seconds
  ELSE Ok(MSToSeconds(minutes.val, seconds.val))

Line32(hours, minutes, seconds) ==
  IF ~hours.ok THEN hours
  ELSE IF ~minutes.ok THEN minutes
  ELSE IF ~seconds.ok THEN seconds
  ELSE Ok(HMSToSeconds(hours.val, minutes.val, seconds.val))

\* the MM:SS branch
MMSS(parts) == Line29(ParseInt(parts[1]), ParseFloat(parts[2]))

\* the HH:MM:SS branch
HHMMSS(parts) == Line32(ParseInt(parts[1]), ParseInt(parts[2]), ParseFloat(parts[3]))

TimeOfParts_BareSeconds(parts, time_str) ==
  IF Len(parts) = 1 THEN ParseFloat(parts[1])
  ELSE IF Len(parts) = 2 THEN MMSS(parts)
  ELSE IF Len(parts) = 3 THEN HHMMSS(parts)
  ELSE Raise("ValueError", "time format", time_str)

\* the branch on len(parts)
TimeOfParts(parts, time_str) ==
  IF Len(parts) = 2 THEN MMSS(parts)
  ELSE IF Len(parts) = 3 THEN HHMMSS(parts)
  ELSE Raise("ValueError", "time format", time_str)

parse_time_to_seconds(time_str) == TimeOfParts(Split(Strip(time_str), ":"), time_str)

\* ------------------------------------------------------- parse_segments

EndAfterStart_NonStrict(start_time, end_time) == end_time >= start_time

\* the negation of the test `end_time <= start_time`
EndAfterStart(start_time, end_time) == ~(end_time <= start_time)

HasDash_Always(segment) == TRUE

\* '-' in segment
HasDash(segment) == Find(segment, "-") # 0

AppendSegment_Front(segments, start_time, end_time) ==
  <<<<start_time, end_time>>>> \o segments

\* segments.append((start_time, end_time))
AppendSegment(segments, start_time, end_time) ==
  Append(segments, <<start_time, end_time>>)

\* lines 62-68 for one token: the start is parsed, then the end, then the
\* range is tested
CheckRange(segment, start_time, end_time) ==
  IF ~start_time.ok THEN start_time
  ELSE IF ~end_time.ok THEN end_time
  ELSE IF ~EndAfterStart(start_time.val, end_time.val)
  THEN Raise("ValueError", "end not after start", segment)
  ELSE Ok(<<start_time.val, end_time.val>>)

TimesOf(segment, halves) ==
  CheckRange(segment, parse_time_to_seconds(halves[1]), parse_time_to_seconds(halves[2]))

\* the loop body for a non-empty token: its (start, end), or the error raised
ParseToken(segment) ==
  IF ~HasDash(segment) THEN Raise("ValueError", "missing '-'", segment)
  ELSE TimesOf(segment, SplitFirst(segment, "-"))

\* the loop of parse_segments over segment_list[i..], `segments` so far
RECURSIVE ParseLoop(_, _, _), LoopBody(_, _, _, _), LoopNext(_, _, _, _)
ParseLoop(segment_list, i, segments) ==
  IF i > Len(segment_list) THEN Ok(segments)
  ELSE LoopBody(segment_list, i, segments, Strip(segment_list[i]))

LoopBody(segment_list, i, segments, segment) ==
  IF segment = <<>> THEN ParseLoop(segment_list, i + 1, segments)
  ELSE LoopNext(segment_list, i, segments, ParseToken(segment))

LoopNext(segment_list, i, segments, pair) ==
  IF ~pair.ok THEN pair
  ELSE ParseLoop(segment_list, i + 1, AppendSegment(segments, pair.val[1], pair.val[2]))

parse_segments(segments_str) == ParseLoop(Split(segments_str, "|"), 1, <<>>)

\* --------------------------------------------------------- parser inputs

T_03_05 == <<"0", "3", ":", "0", "5">>
T_03_10 == <<"0", "3", ":", "1", "0">>
T_40_05 == <<"4", "0", ":", "0", "5">>
T_40_10 == <<"4", "0", ":", "1", "0">>
T_1_03_05 == <<"1", ":", "0", "3", ":", "0", "5">>
T_1_04_05 == <<"1", ":", "0", "4", ":", "0", "5">>
T_90_75 == <<"9", "0", ":", "7", "5">>
T_1_2_3_4 == <<"1", ":", "2", ":", "3", ":", "4">>

Range(a, b) == a \o <<"-">> \o b

\* the example of the docstring, one token at a time
Tok1 == Range(T_03_05, T_03_10)
Tok2 == Range(T_40_05, T_40_10)
Tok3 == Range(T_1_03_05, T_1_04_05)
\* end before start, and end equal to start
TokReversed == Range(T_03_10, T_03_05)
TokEqual == Range(T_03_05, T_03_05)
\* no '-'
TokNoDash == T_03_05
\* blank tokens
TokEmpty == <<>>
TokSpace == <<" ">>
\* spaces around the token and around its times; overlaps Tok1 and Tok2
TokSpaced == <<" ">> \o T_03_05 \o <<" ", "-", " ">> \o T_40_10 \o <<" ">>
\* a time of one field, and one of four
TokOneField == Range(<<"5">>, T_03_05)
TokFourFields == Range(T_03_05, T_1_2_3_4)
\* two '-': the end time is "-0:2"
TokTwoDashes == <<"0", ":", "1", "-", "-", "0", ":", "2">>
\* half a second long
TokFraction == Range(T_03_05, T_03_05 \o <<".", "5">>)
\* fields beyond their natural range
TokWide == Range(T_03_05, T_90_75)
\* an empty minutes field
TokNoMinutes == Range(T_03_05, <<":", "1", "0">>)

TokenPool ==
  {Tok1, Tok2, Tok3, TokReversed, TokEqual, TokNoDash, TokEmpty, TokSpace,
   TokSpaced, TokOneField, TokFourFields, TokTwoDashes, TokFraction, TokWide,
   TokNoMinutes}

\* the characters typed into a time string
TimeAlphabet == {"0", "1", "6", ":", "-", " "}

\* time strings given whole
TimeSeeds ==
  {<<>>, T_03_05, T_1_03_05, T_90_75, T_1_2_3_4,
   <<"0", ":", "1", ".", "5">>, <<"+", "1", ":", "0", "5">>}

\* ------------------------------------------------------------------ state

VARIABLES
  time_str,      \* the argument of parse_time_to_seconds
  time_out,      \* <<>> before the call, <<its outcome>> after
  typed,         \* the tokens typed into segments_str, in order
  segments_str,  \* the argument of parse_segments
  seg_out        \* <<>> before the call, <<its outcome>> after

parseVars == <<time_str, time_out, typed, segments_str, seg_out>>

VARIABLES
  frontend,          \* the program that runs: "cli", "interactive" or "gui"
  mode,              \* the processing mode chosen: "fast", "balanced", "accurate"; "none" in the CLI
  remove_audio,      \* whether the silent-video option is chosen
  output_is_input,   \* whether the output path given names the input file
  user_segments,     \* the segment string the user gives (args.segments, input(), the text box)
  input_exists,      \* os.path.exists(input_video)
  ffmpeg_installed,  \* whether `ffmpeg -version` runs
  pc,                \* where the front end's main is
  exit_code,         \* <<>> while the process runs, <<status>> once it has exited
  console,           \* what the front end and the cutter's cleanup printed
  cut_calls          \* every call of cut_video_segments: caller, segments, keywords

frontVars ==
  <<frontend, mode, remove_audio, output_is_input, user_segments, input_exists, ffmpeg_installed, pc, exit_code, console, cut_calls>>

VARIABLES
  cpc,              \* where cut_video_segments is
  segments,         \* its parameter
  idx,              \* the loop index of enumerate(segments, 1)
  segment_files,    \* the list of the same name
  total_duration,   \* the sum of the same name
  temp_dir_exists,  \* whether the temp directory is on disk
  temp_files,       \* the names of the files in it
  concat_list,      \* the lines of concat_list.txt
  output_video,     \* the output file: "absent", "partial" or "complete"
  source_written,   \* whether the run has written to the file input_video names
  tool_calls,       \* the ffmpeg calls made, each with its exit code and stderr once back
  pending,          \* the exception on its way through the finally block, if any
  outcome,          \* <<>> while it runs, <<"return">> or <<exception>> after
  cleanups          \* how many times the finally block ran

cutVars ==
  <<cpc, segments, idx, segment_files, total_duration, temp_dir_exists, temp_files,
    concat_list, output_video, source_written, tool_calls, pending, outcome, cleanups>>

VARIABLES
  input_path_given,   \* whether the input path box is filled
  output_path_given,  \* whether the output path box is filled
  is_processing,      \* self.is_processing
  process_btn,        \* state of the start button: "normal" or "disabled"
  cancel_btn,         \* state of the cancel button
  progress_bar,       \* "stopped" or "running"
  progress_label,     \* the text of the progress label
  dialog,             \* the last message box shown
  workers,            \* the worker threads started, each with its arguments and position
  after_queue         \* the callbacks handed to root.after(0, …), oldest first

guiVars ==
  <<input_path_given, output_path_given, is_processing, process_btn, cancel_btn,
    progress_bar, progress_label, dialog, workers, after_queue>>

\* one call of GoogleDriveUploader.upload_file
VARIABLES
  upc,             \* where the call stands
  file_exists,     \* whether file_path names an existing file
  folder_name,     \* the folder name passed, "" when none
  drive_folders,   \* ids of the folders on the Drive that carry folder_name
  parent_id,       \* <<>> for None, <<id>> once a folder id is known
  file_size,       \* size of the file, in chunks
  uploaded,        \* chunks the server has acknowledged
  request,         \* <<>>, or the resumable create request built
  response,        \* <<>> for None, or the final response of next_chunk
  api_calls,       \* the requests sent to the Drive API, with their outcome
  upload_out,      \* <<>>, or how the call ended
  upload_console   \* what the call printed

upVars ==
  <<upc, file_exists, folder_name, drive_folders, parent_id, file_size, uploaded, request,
    response, api_calls, upload_out, upload_console>>

vars == <<parseVars, frontVars, cutVars, guiVars, upVars>>

\* --------------------------------------------------- the parser under test

ParserInit ==
  /\ time_str \in TimeSeeds
  /\ time_out = <<>>
  /\ typed = <<>>
  /\ segments_str = <<>>
  /\ seg_out = <<>>

\* one more character of the time string
TypeTimeChar(c) ==
  /\ time_out = <<>> /\ typed = <<>> /\ seg_out = <<>>
  /\ Len(time_str) < MaxTimeLen
  /\ time_str' = Append(time_str, c)
  /\ UNCHANGED <<time_out, typed, segments_str, seg_out>>
  /\ UNCHANGED <<frontVars, cutVars, guiVars, upVars>>

CallParseTime ==
  /\ time_out = <<>> /\ typed = <<>> /\ seg_out = <<>>
  /\ time_out' = <<parse_time_to_seconds(time_str)>>
  /\ UNCHANGED <<time_str, typed, segments_str, seg_out>>
  /\ UNCHANGED <<frontVars, cutVars, guiVars, upVars>>

\* one more token of the segment string, after a '|' unless it is the first
TypeToken(tok) ==
  /\ seg_out = <<>> /\ time_str = <<>> /\ time_out = <<>>
  /\ Len(typed) < MaxTokens
  /\ typed' = Append(typed, tok)
  /\ segments_str' = IF typed = <<>> THEN tok ELSE segments_str \o <<"|">> \o tok
  /\ UNCHANGED <<time_str, time_out, seg_out>>
  /\ UNCHANGED <<frontVars, cutVars, guiVars, upVars>>

CallParseSegments ==
  /\ seg_out = <<>> /\ time_str = <<>> /\ time_out = <<>>
  /\ seg_out' = <<parse_segments(segments_str)>>
  /\ UNCHANGED <<time_str, time_out, typed, segments_str>>
  /\ UNCHANGED <<frontVars, cutVars, guiVars, upVars>>

NextParse ==
  \/ \E c \in TimeAlphabet : TypeTimeChar(c)
  \/ CallParseTime
  \/ \E tok \in TokenPool : TypeToken(tok)
  \/ CallParseSegments

\* ------------------------------------------------------- the cutter's data

\* the default of --temp-dir and of the temp_dir parameter
TempDir == "temp_segments"
\* the working directory os.path.abspath resolves against
Cwd == "/cwd"
\* a file left in the temp directory by an earlier run whose cleanup failed
StaleFile == <<"stale">>
ConcatFile == <<"concat_list.txt">>

\* exit codes of the media tool: success, an error, death by a signal
ReturnCodes == {0, 1, -9}
\* what the media tool may write to stderr
Diagnostics == {"diag_a", "diag_b"}

DigitChar(d) == CHOOSE c \in Digits : DigitValue(c) = d

RECURSIVE DigitsOf(_)
DigitsOf(n) ==
  IF n < 10 THEN <<DigitChar(n)>> ELSE DigitsOf(n \div 10) \o <<DigitChar(n % 10)>>

RECURSIVE ZeroPad(_, _)
ZeroPad(s, width) == IF Len(s) >= width THEN s ELSE ZeroPad(<<"0">> \o s, width)

Format03d_Unpadded(n) == DigitsOf(n)

\* f"{idx:03d}"
Format03d(n) == ZeroPad(DigitsOf(n), 3)

\* os.path.join(temp_dir, f"segment_{idx:03d}.mp4")
SegmentFile(temp_dir, i) ==
  [dir |-> <<temp_dir>>, name |-> <<"segment_">> \o Format03d(i) \o <<".mp4">>]

\* os.path.abspath
AbsPath(path) == [path EXCEPT !.dir = <<Cwd>> \o path.dir]

\* the ffmpeg command line that cuts one segment
CutCmd(start_time, duration, segment_file) ==
  [kind |-> "cut", ss |-> start_time, t |-> duration, cv |-> "libx264", ca |-> "aac",
   out |-> segment_file]

\* the ffmpeg command line that joins the segments
ConcatCmd(concat_file) ==
  [kind |-> "concat", f |-> "concat", i |-> concat_file, c |-> "copy", out |-> "output_video"]

\* a call in flight, and the same call once the tool has exited
Launched(cmd) == [cmd |-> cmd, result |-> <<>>]
Returned(call, rc, diag) == [call EXCEPT !.result = <<[returncode |-> rc, stderr |-> diag]>>]

Failed_OnlyPositive(returncode) == returncode > 0

\* result.returncode != 0
Failed(returncode) == returncode # 0

\* the parameters of cut_video_segments
CutterParams == {"input_video", "segments", "output_video", "temp_dir"}

\* ------------------------------------------------------ cut_video_segments

CutterIdle ==
  /\ cpc = "idle"
  /\ segments = <<>>
  /\ idx = 0
  /\ segment_files = <<>>
  /\ total_duration = 0
  /\ concat_list = <<>>
  /\ output_video = "absent"
  /\ source_written = FALSE
  /\ tool_calls = <<>>
  /\ pending = <<>>
  /\ outcome = <<>>
  /\ cleanups = 0

\* a line on the console, with the exception it reports, if any
Printed(text, exc) == [text |-> text, err |-> exc]

\* the state a call of cut_video_segments(…, segs, …) starts in
EnterCutter(segs) ==
  /\ cpc' = "check_ffmpeg"
  /\ segments' = segs
  /\ UNCHANGED <<idx, segment_files, total_duration, temp_dir_exists, temp_files,
                 concat_list, output_video, source_written, tool_calls, pending, outcome, cleanups>>

RaiseOutside(err) ==
  /\ cpc' = "raised"
  /\ outcome' = <<[kind |-> "raise", err |-> err]>>

\* if not check_ffmpeg(): raise RuntimeError
CheckFfmpeg ==
  /\ cpc = "check_ffmpeg"
  /\ IF ffmpeg_installed
     THEN cpc' = "check_input" /\ UNCHANGED outcome
     ELSE RaiseOutside([type |-> "RuntimeError", msg |-> "ffmpeg missing", arg |-> <<>>])
  /\ UNCHANGED <<segments, idx, segment_files, total_duration, temp_dir_exists, temp_files,
                 concat_list, output_video, source_written, tool_calls, pending, cleanups>>
  /\ UNCHANGED <<upVars, parseVars, frontVars, guiVars>>

CheckInput_AfterMakeDirs ==
  /\ cpc = "check_input"
  /\ IF input_exists
     THEN cpc' = "makedirs" /\ UNCHANGED <<outcome, temp_dir_exists>>
     ELSE /\ temp_dir_exists' = TRUE
          /\ RaiseOutside([type |-> "FileNotFoundError", msg |-> "video not found",
                           arg |-> <<"input_video">>])
  /\ UNCHANGED <<segments, idx, segment_files, total_duration, temp_files,
                 concat_list, output_video, source_written, tool_calls, pending, cleanups>>
  /\ UNCHANGED <<upVars, parseVars, frontVars, guiVars>>

\* if not os.path.exists(input_video): raise FileNotFoundError
CheckInput ==
  /\ cpc = "check_input"
  /\ IF input_exists
     THEN cpc' = "makedirs" /\ UNCHANGED outcome
     ELSE RaiseOutside([type |-> "FileNotFoundError", msg |-> "video not found",
                        arg |-> <<"input_video">>])
  /\ UNCHANGED <<segments, idx, segment_files, total_duration, temp_dir_exists, temp_files,
                 concat_list, output_video, source_written, tool_calls, pending, cleanups>>
  /\ UNCHANGED <<upVars, parseVars, frontVars, guiVars>>

\* os.makedirs(temp_dir, exist_ok=True); an existing directory is kept as it is
MakeDirs ==
  /\ cpc = "makedirs"
  /\ \/ /\ temp_dir_exists' = TRUE
        /\ cpc' = "loop"
        /\ UNCHANGED outcome
     \/ /\ ~temp_dir_exists
        /\ RaiseOutside([type |-> "OSError", msg |-> "makedirs", arg |-> <<TempDir>>])
        /\ UNCHANGED temp_dir_exists
  /\ UNCHANGED <<segments, idx, segment_files, total_duration, temp_files,
                 concat_list, output_video, source_written, tool_calls, pending, cleanups>>
  /\ UNCHANGED <<upVars, parseVars, frontVars, guiVars>>

StartCut_NoWait ==
  /\ cpc = "loop"
  /\ idx < Len(segments)
  /\ LET i == idx + 1
         start_time == segments[i][1]
         end_time == segments[i][2]
         duration == end_time - start_time
         segment_file == SegmentFile(TempDir, i)
     IN /\ idx' = i
        /\ total_duration' = total_duration + duration
        /\ segment_files' = Append(segment_files, segment_file)
        /\ tool_calls' = Append(tool_calls, Launched(CutCmd(start_time, duration, segment_file)))
  /\ cpc' = "loop"
  /\ UNCHANGED <<segments, temp_dir_exists, temp_files, concat_list, output_video, source_written,
                 pending, outcome, cleanups>>
  /\ UNCHANGED <<upVars, parseVars, frontVars, guiVars>>

\* the head of the loop body, up to subprocess.run(cmd) being under way
StartCut ==
  /\ cpc = "loop"
  /\ idx < Len(segments)
  /\ LET i == idx + 1
         start_time == segments[i][1]
         end_time == segments[i][2]
         duration == end_time - start_time
         segment_file == SegmentFile(TempDir, i)
     IN /\ idx' = i
        /\ total_duration' = total_duration + duration
        /\ segment_files' = Append(segment_files, segment_file)
        /\ tool_calls' = Append(tool_calls, Launched(CutCmd(start_time, duration, segment_file)))
  /\ cpc' = "cut_running"
  /\ UNCHANGED <<segments, temp_dir_exists, temp_files, concat_list, output_video, source_written,
                 pending, outcome, cleanups>>
  /\ UNCHANGED <<upVars, parseVars, frontVars, guiVars>>

\* a failed cut whose RuntimeError leaves the function past the finally block
CutReturns_PastCleanup(rc, diag, wrote) ==
  /\ cpc = "cut_running"
  /\ (rc = 0 => wrote)
  /\ tool_calls' = [tool_calls EXCEPT ![Len(tool_calls)] = Returned(@, rc, diag)]
  /\ temp_files' = IF wrote THEN temp_files \cup {segment_files[idx].name} ELSE temp_files
  /\ IF Failed(rc)
     THEN /\ pending' = <<[type |-> "RuntimeError", msg |-> "cut", arg |-> <<idx, diag>>]>>
          /\ RaiseOutside(pending'[1])
     ELSE /\ cpc' = "loop"
          /\ UNCHANGED <<pending, outcome>>
  /\ UNCHANGED <<segments, idx, segment_files, total_duration, temp_dir_exists,
                 concat_list, output_video, source_written, cleanups>>
  /\ UNCHANGED <<upVars, parseVars, frontVars, guiVars>>

\* ffmpeg exits: with code 0 it has written the segment file, otherwise it may
\* have left a partial file; a non-zero code raises RuntimeError with its stderr
CutReturns(rc, diag, wrote) ==
  /\ cpc = "cut_running"
  /\ (rc = 0 => wrote)
  /\ tool_calls' = [tool_calls EXCEPT ![Len(tool_calls)] = Returned(@, rc, diag)]
  /\ temp_files' = IF wrote THEN temp_files \cup {segment_files[idx].name} ELSE temp_files
  /\ IF Failed(rc)
     THEN /\ pending' = <<[type |-> "RuntimeError", msg |-> "cut", arg |-> <<idx, diag>>]>>
          /\ cpc' = "finally"
     ELSE /\ cpc' = "loop"
          /\ UNCHANGED pending
  /\ UNCHANGED <<segments, idx, segment_files, total_duration, temp_dir_exists,
                 concat_list, output_video, source_written, outcome, cleanups>>
  /\ UNCHANGED <<upVars, parseVars, frontVars, guiVars>>

ManifestLines_Reversed(files) ==
  [k \in 1..Len(files) |-> [file |-> AbsPath(files[Len(files) + 1 - k])]]

\* one line file '<abspath>' per entry of segment_files, in list order
ManifestLines(files) == [k \in 1..Len(files) |-> [file |-> AbsPath(files[k])]]

LoopExhausted_OneEarly(i, segs) == i >= Len(segs) - 1

\* enumerate(segments, 1) has no next item
LoopExhausted(i, segs) == i = Len(segs)

\* the loop is over: concat_list.txt is written and the concat call is under way
WriteManifestAndStartConcat ==
  /\ cpc = "loop"
  /\ LoopExhausted(idx, segments)
  /\ concat_list' = ManifestLines(segment_files)
  /\ temp_files' = temp_files \cup {ConcatFile}
  /\ tool_calls' = Append(tool_calls, Launched(ConcatCmd([dir |-> <<TempDir>>, name |-> ConcatFile])))
  /\ cpc' = "concat_running"
  /\ UNCHANGED <<segments, idx, segment_files, total_duration, temp_dir_exists,
                 output_video, source_written, pending, outcome, cleanups>>
  /\ UNCHANGED <<upVars, parseVars, frontVars, guiVars>>

\* ffmpeg exits: with code 0 the output is complete, otherwise there may be a
\* partly written output; a non-zero code raises RuntimeError with its stderr
ConcatReturns(rc, diag, wrote) ==
  /\ cpc = "concat_running"
  /\ (rc = 0 => wrote)
  /\ tool_calls' = [tool_calls EXCEPT ![Len(tool_calls)] = Returned(@, rc, diag)]
  /\ output_video' = IF rc = 0 THEN "complete" ELSE IF wrote THEN "partial" ELSE output_video
  /\ source_written' = (source_written \/ (wrote /\ output_is_input))
  /\ IF Failed(rc)
     THEN pending' = <<[type |-> "RuntimeError", msg |-> "concat", arg |-> <<diag>>]>>
     ELSE UNCHANGED pending
  /\ cpc' = "finally"
  /\ UNCHANGED <<segments, idx, segment_files, total_duration, temp_dir_exists, temp_files,
                 concat_list, outcome, cleanups>>
  /\ UNCHANGED <<upVars, parseVars, frontVars, guiVars>>

AfterCleanup_RemovalErrorEscapes(exc, rmtree_failed) ==
  IF rmtree_failed
  THEN <<[kind |-> "raise", err |-> [type |-> "OSError", msg |-> "rmtree", arg |-> <<>>]]>>
  ELSE IF exc = <<>> THEN <<[kind |-> "return", err |-> [type |-> "", msg |-> "", arg |-> <<>>]]>>
  ELSE <<[kind |-> "raise", err |-> exc[1]]>>

\* what leaves the finally block: the pending exception, or a normal return;
\* an error of rmtree is caught there and changes neither
AfterCleanup(exc, rmtree_failed) ==
  IF exc = <<>> THEN <<[kind |-> "return", err |-> [type |-> "", msg |-> "", arg |-> <<>>]]>>
  ELSE <<[kind |-> "raise", err |-> exc[1]]>>

\* the finally block: shutil.rmtree(temp_dir) removes the directory, or fails
\* part of the way and only a warning is printed
Finally(removed, left) ==
  /\ cpc = "finally"
  /\ cleanups' = cleanups + 1
  /\ IF ~temp_dir_exists
     THEN /\ removed
          /\ left = {}
          /\ UNCHANGED <<temp_dir_exists, temp_files, console>>
     ELSE IF removed
     THEN /\ left = {}
          /\ temp_dir_exists' = FALSE
          /\ temp_files' = {}
          /\ console' = Append(console, Printed("temp files removed", <<>>))
     ELSE /\ left \subseteq temp_files
          /\ temp_files' = left
          /\ UNCHANGED temp_dir_exists
          /\ console' = Append(console, Printed("warning: cannot remove temp dir", <<>>))
  /\ outcome' = AfterCleanup(pending, ~removed)
  /\ cpc' = IF outcome'[1].kind = "return" THEN "returned" ELSE "raised"
  /\ UNCHANGED <<segments, idx, segment_files, total_duration, concat_list, output_video, source_written,
                 tool_calls, pending>>
  /\ UNCHANGED <<upVars, parseVars, frontend, output_is_input, mode, remove_audio, user_segments, input_exists, ffmpeg_installed, pc,
                 exit_code, cut_calls, guiVars>>

Cutter ==
  \/ CheckFfmpeg
  \/ CheckInput
  \/ MakeDirs
  \/ StartCut
  \/ \E rc \in ReturnCodes, diag \in Diagnostics, wrote \in BOOLEAN : CutReturns(rc, diag, wrote)
  \/ WriteManifestAndStartConcat
  \/ \E rc \in ReturnCodes, diag \in Diagnostics, wrote \in BOOLEAN : ConcatReturns(rc, diag, wrote)
  \/ \E removed \in BOOLEAN, left \in SUBSET temp_files : Finally(removed, left)

\* ----------------------------------------------------------- front ends

Frontends == {"cli", "interactive", "gui"}

RECURSIVE JoinBar(_)
JoinBar(toks) ==
  IF Len(toks) = 1 THEN toks[1] ELSE toks[1] \o <<"|">> \o JoinBar(Tail(toks))

\* the segment strings a user gives a front end
RunInputs ==
  {<<>>, <<"|">>, TokSpace, Tok1, JoinBar(<<Tok2, Tok1>>), JoinBar(<<Tok1, Tok2, Tok3>>),
   TokNoDash, JoinBar(<<Tok1, TokReversed>>)}

\* the keyword arguments each front end passes to cut_video_segments
CliKeywords == {}
InteractiveKeywords == {"input_video", "segments", "output_video", "mode", "remove_audio"}
GuiKeywords ==
  {"input_video", "segments", "output_video", "temp_dir", "mode", "max_workers",
   "remove_audio", "progress_callback"}

\* a call binds when every keyword names a parameter; otherwise it raises
\* TypeError before the body runs
Binds(keywords) == keywords \subseteq CutterParams
UnexpectedKeyword ==
  [type |-> "TypeError", msg |-> "unexpected keyword argument", arg |-> <<>>]

CallRecord(caller, segs, keywords) ==
  [caller |-> caller, segments |-> segs, keywords |-> keywords]

\* the three processing modes of the GUI's radio buttons and of mode_map
Modes == {"fast", "balanced", "accurate"}

FrontInit ==
  /\ frontend \in Frontends
  /\ mode \in (IF frontend = "gui" THEN Modes ELSE IF frontend = "cli" THEN {"none"} ELSE {"balanced"})
  /\ remove_audio \in (IF frontend = "gui" THEN BOOLEAN ELSE {FALSE})
  /\ output_is_input \in (IF frontend = "cli" THEN BOOLEAN ELSE {FALSE})
  /\ user_segments \in RunInputs
  /\ input_exists \in BOOLEAN
  /\ ffmpeg_installed \in (IF frontend = "gui" THEN {TRUE} ELSE BOOLEAN)
  /\ pc = "start"
  /\ exit_code = <<>>
  /\ console = <<>>
  /\ cut_calls = <<>>

Exit(status) == pc' = "exited" /\ exit_code' = <<status>>

NoSegments_Ignored(segs) == FALSE

\* if not segments:
NoSegments(segs) == segs = <<>>

\* the rest of video_cutter.main once parse_segments has returned or raised
CliParsed(parsed) ==
  IF ~parsed.ok
  THEN /\ console' = Append(console, Printed("error", <<parsed.err>>))
       /\ Exit(1)
       /\ UNCHANGED <<cut_calls, cutVars>>
  ELSE IF NoSegments(parsed.val)
  THEN /\ console' = Append(console, Printed("no segments to cut", <<>>))
       /\ Exit(1)
       /\ UNCHANGED <<cut_calls, cutVars>>
  ELSE /\ cut_calls' = Append(cut_calls, CallRecord("cli", parsed.val, CliKeywords))
       /\ EnterCutter(parsed.val)
       /\ pc' = "in_cutter"
       /\ UNCHANGED <<console, exit_code>>

\* video_cutter.main from parse_segments to the call of cut_video_segments
CliMain ==
  /\ frontend = "cli" /\ pc = "start"
  /\ CliParsed(parse_segments(user_segments))
  /\ UNCHANGED <<frontend, output_is_input, mode, remove_audio, user_segments, input_exists, ffmpeg_installed>>
  /\ UNCHANGED <<upVars, parseVars, guiVars>>

\* video_cutter.main once cut_video_segments has returned or raised
CliFinish ==
  /\ frontend = "cli" /\ pc = "in_cutter"
  /\ cpc \in {"returned", "raised"}
  /\ IF outcome[1].kind = "return"
     THEN /\ Exit(0)
          /\ UNCHANGED console
     ELSE /\ console' = Append(console, Printed("error", <<outcome[1].err>>))
          /\ Exit(1)
  /\ UNCHANGED <<frontend, output_is_input, mode, remove_audio, user_segments, input_exists, ffmpeg_installed, cut_calls>>
  /\ UNCHANGED <<upVars, parseVars, cutVars, guiVars>>

\* the interactive main: check_ffmpeg, or exit with status 1
InteractiveCheckFfmpeg ==
  /\ frontend = "interactive" /\ pc = "start"
  /\ IF ffmpeg_installed
     THEN pc' = "ask_url" /\ UNCHANGED <<exit_code, console>>
     ELSE /\ console' = Append(console, Printed("ffmpeg not found", <<>>))
          /\ Exit(1)
  /\ UNCHANGED <<frontend, output_is_input, mode, remove_audio, user_segments, input_exists, ffmpeg_installed, cut_calls>>
  /\ UNCHANGED <<upVars, parseVars, cutVars, guiVars>>

\* download_youtube_video: whether it returns a file path (TRUE) or None
DownloadResults == BOOLEAN

\* the optional YouTube URL: with none given, or when download_youtube_video
\* returns None, main goes on to ask for a local file; a downloaded file is
\* the input video
InteractiveSource(url_given, success) ==
  /\ frontend = "interactive" /\ pc = "ask_url"
  /\ IF ~url_given
     THEN /\ ~success
          /\ pc' = "ask_input"
          /\ UNCHANGED <<console, input_exists>>
     ELSE IF success
     THEN /\ console' = Append(console, Printed("downloaded", <<>>))
          /\ input_exists' = TRUE
          /\ pc' = "ask_segments"
     ELSE /\ console' = Append(console, Printed("download failed", <<>>))
          /\ pc' = "ask_input"
          /\ UNCHANGED input_exists
  /\ UNCHANGED <<frontend, output_is_input, mode, remove_audio, user_segments, ffmpeg_installed, exit_code, cut_calls>>
  /\ UNCHANGED <<upVars, parseVars, cutVars, guiVars>>

\* the loop that asks for the input path until the file named exists
InteractiveAskInput(exists) ==
  /\ frontend = "interactive" /\ pc = "ask_input"
  /\ input_exists' = exists
  /\ pc' = IF exists THEN "ask_segments" ELSE "ask_input"
  /\ UNCHANGED <<frontend, output_is_input, mode, remove_audio, user_segments, ffmpeg_installed, exit_code, console, cut_calls>>
  /\ UNCHANGED <<upVars, parseVars, cutVars, guiVars>>

\* validate_segments: True when parse_segments returns, False when it raises
ValidateSegments(parsed) == parsed.ok

\* the loop that asks for the segments until validate_segments accepts them;
\* get_input strips the answer
InteractiveAskSegments(answer) ==
  /\ frontend = "interactive" /\ pc = "ask_segments"
  /\ user_segments' = Strip(answer)
  /\ pc' = IF ValidateSegments(parse_segments(Strip(answer))) THEN "ask_options" ELSE "ask_segments"
  /\ UNCHANGED <<frontend, output_is_input, mode, remove_audio, input_exists, ffmpeg_installed, exit_code, console, cut_calls>>
  /\ UNCHANGED <<upVars, parseVars, cutVars, guiVars>>

\* the prompts for the processing mode (mode_map) and for audio removal
InteractiveAskOptions(m, silent) ==
  /\ frontend = "interactive" /\ pc = "ask_options"
  /\ mode' = m
  /\ remove_audio' = silent
  /\ pc' = "confirm"
  /\ UNCHANGED <<frontend, output_is_input, user_segments, input_exists, ffmpeg_installed, exit_code, console, cut_calls>>
  /\ UNCHANGED <<upVars, parseVars, cutVars, guiVars>>

\* the call of cut_video_segments in the interactive main, inside its
\* try/except Exception
InteractiveCall(segs) ==
  /\ cut_calls' = Append(cut_calls, CallRecord("interactive", segs, InteractiveKeywords))
  /\ IF Binds(InteractiveKeywords)
     THEN /\ EnterCutter(segs)
          /\ pc' = "in_cutter"
          /\ UNCHANGED <<console, exit_code>>
     ELSE /\ console' = Append(console, Printed("error", <<UnexpectedKeyword>>))
          /\ Exit(1)
          /\ UNCHANGED cutVars

\* "Start processing?": no returns from main, yes goes on to the call with the
\* segments parsed at line 268
InteractiveConfirm(yes) ==
  /\ frontend = "interactive" /\ pc = "confirm"
  /\ IF ~yes
     THEN /\ console' = Append(console, Printed("cancelled by user", <<>>))
          /\ Exit(0)
          /\ UNCHANGED <<cut_calls, cutVars>>
     ELSE InteractiveCall(parse_segments(user_segments).val)
  /\ UNCHANGED <<frontend, output_is_input, mode, remove_audio, user_segments, input_exists, ffmpeg_installed>>
  /\ UNCHANGED <<upVars, parseVars, guiVars>>

\* ------------------------------------------------------------------- GUI

\* most workers the start button starts in one behaviour
MaxRuns == 2

GuiInit ==
  /\ input_path_given \in BOOLEAN
  /\ output_path_given \in BOOLEAN
  /\ is_processing = FALSE
  /\ process_btn = "normal"
  /\ cancel_btn = "disabled"
  /\ progress_bar = "stopped"
  /\ progress_label = "ready"
  /\ dialog = "none"
  /\ workers = <<>>
  /\ after_queue = <<>>

\* the front end is not the GUI: the window does not exist
GuiAbsent ==
  /\ input_path_given = TRUE
  /\ output_path_given = TRUE
  /\ is_processing = FALSE
  /\ process_btn = "normal"
  /\ cancel_btn = "disabled"
  /\ progress_bar = "stopped"
  /\ progress_label = "ready"
  /\ dialog = "none"
  /\ workers = <<>>
  /\ after_queue = <<>>

\* pre-checks that do not look whether the input file is there
PreCheck_NoExistsCheck(segments_text, parsed) ==
  IF ~input_path_given THEN "warning: choose the input video"
  ELSE IF ~output_path_given THEN "warning: choose the output video"
  ELSE IF segments_text = <<>> THEN "warning: enter the segments"
  ELSE IF ~parsed.ok THEN "error: invalid segment format"
  ELSE ""

\* which pre-check of start_processing stops it, "" when none does
PreCheck(segments_text, parsed) ==
  IF ~input_path_given THEN "warning: choose the input video"
  ELSE IF ~output_path_given THEN "warning: choose the output video"
  ELSE IF segments_text = <<>> THEN "warning: enter the segments"
  ELSE IF ~input_exists THEN "error: video not found"
  ELSE IF ~parsed.ok THEN "error: invalid segment format"
  ELSE ""

\* start_processing on the stripped text of the segments box
StartWith(segments_text, parsed) ==
  IF PreCheck(segments_text, parsed) # ""
  THEN /\ dialog' = PreCheck(segments_text, parsed)
       /\ UNCHANGED <<is_processing, process_btn, cancel_btn, progress_bar,
                      progress_label, workers>>
  ELSE /\ is_processing' = TRUE
       /\ process_btn' = "disabled"
       /\ cancel_btn' = "normal"
       /\ progress_bar' = "running"
       /\ progress_label' = "processing"
       /\ workers' = Append(workers, [segments |-> parsed.val, at |-> "started"])
       /\ UNCHANGED dialog

\* VideoCutterGUI.start_processing, run by a click on the start button
StartProcessing ==
  /\ frontend = "gui"
  /\ process_btn = "normal"
  /\ Len(workers) < MaxRuns
  /\ StartWith(Strip(user_segments), parse_segments(Strip(user_segments)))
  /\ UNCHANGED <<input_path_given, output_path_given, after_queue>>
  /\ UNCHANGED <<upVars, parseVars, frontVars, cutVars>>

\* what the user retypes the segments box to: blank tokens, one valid
\* segment, a token without '-'
GuiEdits == {<<"|">>, Tok1, TokNoDash}

\* the user edits the segments box
EditSegments(text) ==
  /\ frontend = "gui"
  /\ user_segments # text
  /\ user_segments' = text
  /\ UNCHANGED <<frontend, output_is_input, mode, remove_audio, input_exists, ffmpeg_installed, pc, exit_code, console, cut_calls>>
  /\ UNCHANGED <<upVars, parseVars, cutVars, guiVars>>

\* VideoCutterGUI.process_video on worker thread w: the call of
\* cut_video_segments with the GUI's keywords does not bind, the TypeError is
\* caught and processing_error is handed to root.after, whatever is_processing
\* is by then (active records its value)
ProcessVideo(w) ==
  /\ frontend = "gui"
  /\ w \in 1..Len(workers)
  /\ workers[w].at = "started"
  /\ ~Binds(GuiKeywords)
  /\ cut_calls' = Append(cut_calls, CallRecord("gui", workers[w].segments, GuiKeywords))
  /\ workers' = [workers EXCEPT ![w].at = "finished"]
  /\ after_queue' = Append(after_queue, [handler |-> "processing_error", worker |-> w,
                                         err |-> UnexpectedKeyword,
                                         active |-> is_processing])
  /\ UNCHANGED <<input_path_given, output_path_given, is_processing, process_btn, cancel_btn,
                 progress_bar, progress_label, dialog>>
  /\ UNCHANGED <<frontend, output_is_input, mode, remove_audio, user_segments, input_exists, ffmpeg_installed, pc, exit_code, console>>
  /\ UNCHANGED <<upVars, parseVars, cutVars>>

\* a processing_error that clears the flag and leaves the buttons alone
ProcessingError_ButtonsKept ==
  /\ frontend = "gui"
  /\ after_queue # <<>>
  /\ Head(after_queue).handler = "processing_error"
  /\ after_queue' = Tail(after_queue)
  /\ is_processing' = FALSE
  /\ progress_bar' = "stopped"
  /\ progress_label' = "error"
  /\ dialog' = "error: processing failed"
  /\ UNCHANGED <<input_path_given, output_path_given, workers, process_btn, cancel_btn>>
  /\ UNCHANGED <<upVars, parseVars, frontVars, cutVars>>

\* VideoCutterGUI.processing_error, run by the event loop from the after queue
ProcessingError ==
  /\ frontend = "gui"
  /\ after_queue # <<>>
  /\ Head(after_queue).handler = "processing_error"
  /\ after_queue' = Tail(after_queue)
  /\ is_processing' = FALSE
  /\ progress_bar' = "stopped"
  /\ progress_label' = "error"
  /\ process_btn' = "normal"
  /\ cancel_btn' = "disabled"
  /\ dialog' = "error: processing failed"
  /\ UNCHANGED <<input_path_given, output_path_given, workers>>
  /\ UNCHANGED <<upVars, parseVars, frontVars, cutVars>>

\* a cancel_processing that also ends the worker threads still running
CancelProcessing_StopsWorker(confirmed) ==
  /\ frontend = "gui"
  /\ cancel_btn = "normal"
  /\ IF confirmed
     THEN /\ is_processing' = FALSE
          /\ progress_bar' = "stopped"
          /\ progress_label' = "cancelled"
          /\ process_btn' = "normal"
          /\ cancel_btn' = "disabled"
          /\ workers' = [w \in 1..Len(workers) |-> [workers[w] EXCEPT !.at = "finished"]]
     ELSE UNCHANGED <<is_processing, progress_bar, progress_label, process_btn, cancel_btn,
                      workers>>
  /\ dialog' = "question: cancel?"
  /\ UNCHANGED <<input_path_given, output_path_given, after_queue>>
  /\ UNCHANGED <<upVars, parseVars, frontVars, cutVars>>

\* VideoCutterGUI.cancel_processing, run by a click on the cancel button
CancelProcessing(confirmed) ==
  /\ frontend = "gui"
  /\ cancel_btn = "normal"
  /\ IF confirmed
     THEN /\ is_processing' = FALSE
          /\ progress_bar' = "stopped"
          /\ progress_label' = "cancelled"
          /\ process_btn' = "normal"
          /\ cancel_btn' = "disabled"
     ELSE UNCHANGED <<is_processing, progress_bar, progress_label, process_btn, cancel_btn>>
  /\ dialog' = "question: cancel?"
  /\ UNCHANGED <<input_path_given, output_path_given, workers, after_queue>>
  /\ UNCHANGED <<upVars, parseVars, frontVars, cutVars>>

\* ------------------------------------------------- Google Drive uploader

\* largest file, in chunks of the resumable upload
MaxChunks == 3

\* most folders on the Drive that carry the name asked for
MaxFolders == 2

FolderNames == {"", "Video Cutter Uploads"}
FileId == "file_id"
None == "None"

\* an API request and how it ended
ApiCall(api, arg, result) == [api |-> api, arg |-> arg, outcome |-> result]

\* the call has not been made
UploadIdle ==
  /\ upc = "idle"
  /\ file_exists = TRUE
  /\ folder_name = ""
  /\ drive_folders = <<>>
  /\ parent_id = <<>>
  /\ file_size = 1
  /\ uploaded = 0
  /\ request = <<>>
  /\ response = <<>>
  /\ api_calls = <<>>
  /\ upload_out = <<>>
  /\ upload_console = <<>>

\* upload_file is about to be called
UploadInit ==
  /\ upc = "call"
  /\ file_exists \in BOOLEAN
  /\ folder_name \in FolderNames
  /\ \E n \in 0..MaxFolders : drive_folders = [i \in 1..n |-> i]
  /\ parent_id = <<>>
  /\ file_size \in 1..MaxChunks
  /\ uploaded = 0
  /\ request = <<>>
  /\ response = <<>>
  /\ api_calls = <<>>
  /\ upload_out = <<>>
  /\ upload_console = <<>>

UploadReturn(val) == <<[kind |-> "return", val |-> val]>>

\* upload_file up to the folder lookup: the existence check, the default name
UploadFile ==
  /\ upc = "call"
  /\ IF ~file_exists
     THEN /\ upload_console' = Append(upload_console, "file not found")
          /\ upload_out' = UploadReturn(None)
          /\ upc' = "returned"
     ELSE /\ upload_console' = Append(upload_console, "uploading")
          /\ upc' = IF folder_name # "" THEN "folder_list" ELSE "media"
          /\ UNCHANGED upload_out
  /\ UNCHANGED <<file_exists, folder_name, drive_folders, parent_id, file_size, uploaded,
                 request, response, api_calls>>
  /\ UNCHANGED <<parseVars, frontVars, cutVars, guiVars>>

\* a folder that is made although the lookup found one
NeedsCreate_Always(folders) == TRUE

\* get_or_create_folder: "if folders:" returns the first one found
NeedsCreate(folders) == folders = <<>>

\* get_or_create_folder: the files().list request
ListFolders(ok) ==
  /\ upc = "folder_list"
  /\ api_calls' = Append(api_calls, ApiCall("files.list", folder_name,
                                            IF ok THEN "ok" ELSE "error"))
  /\ IF ~ok
     THEN /\ upload_console' = Append(upload_console, "error with folder")
          /\ parent_id' = <<>>
          /\ upc' = "media"
     ELSE IF NeedsCreate(drive_folders)
     THEN /\ upc' = "folder_create"
          /\ UNCHANGED <<upload_console, parent_id>>
     ELSE /\ upload_console' = Append(upload_console, "found existing folder")
          /\ parent_id' = <<drive_folders[1]>>
          /\ upc' = "media"
  /\ UNCHANGED <<file_exists, folder_name, drive_folders, file_size, uploaded, request,
                 response, upload_out>>
  /\ UNCHANGED <<parseVars, frontVars, cutVars, guiVars>>

\* get_or_create_folder: the files().create request for the folder
CreateFolder(ok) ==
  /\ upc = "folder_create"
  /\ api_calls' = Append(api_calls, ApiCall("files.create folder", folder_name,
                                            IF ok THEN "ok" ELSE "error"))
  /\ IF ok
     THEN /\ drive_folders' = Append(drive_folders, Len(drive_folders) + 1)
          /\ parent_id' = <<Len(drive_folders) + 1>>
          /\ upload_console' = Append(upload_console, "created new folder")
     ELSE /\ parent_id' = <<>>
          /\ upload_console' = Append(upload_console, "error with folder")
          /\ UNCHANGED drive_folders
  /\ upc' = "media"
  /\ UNCHANGED <<file_exists, folder_name, file_size, uploaded, request, response, upload_out>>
  /\ UNCHANGED <<parseVars, frontVars, cutVars, guiVars>>

\* upload_file: the metadata, the media object and the resumable request
StartUpload ==
  /\ upc = "media"
  /\ request' = <<[parents |-> parent_id]>>
  /\ response' = <<>>
  /\ uploaded' = 0
  /\ upc' = "chunks"
  /\ UNCHANGED <<file_exists, folder_name, drive_folders, parent_id, file_size, api_calls,
                 upload_out, upload_console>>
  /\ UNCHANGED <<parseVars, frontVars, cutVars, guiVars>>

ChunkResults == {"progress", "final", "error"}

\* upload_file: one turn of "while response is None", and what follows the
\* loop; an exception of next_chunk is caught and None is returned
NextChunk(result) ==
  /\ upc = "chunks"
  /\ response = <<>>
  /\ api_calls' = Append(api_calls, ApiCall("next_chunk", uploaded, result))
  /\ CASE result = "error" ->
            /\ upload_console' = Append(upload_console, "upload failed")
            /\ upload_out' = UploadReturn(None)
            /\ upc' = "returned"
            /\ UNCHANGED <<uploaded, response>>
       [] result = "progress" ->
            /\ uploaded + 1 < file_size
            /\ uploaded' = uploaded + 1
            /\ upload_console' = Append(upload_console, "progress")
            /\ UNCHANGED <<upc, response, upload_out>>
       [] result = "final" ->
            /\ uploaded + 1 = file_size
            /\ response' = <<[id |-> FileId]>>
            /\ upload_console' = Append(upload_console, "upload complete")
            /\ upload_out' = UploadReturn(response'[1].id)
            /\ upc' = "returned"
            /\ UNCHANGED uploaded
  /\ UNCHANGED <<file_exists, folder_name, drive_folders, parent_id, file_size, request>>
  /\ UNCHANGED <<parseVars, frontVars, cutVars, guiVars>>

\* ------------------------------------------------------- specifications

ParserIdle ==
  /\ time_str = <<>>
  /\ time_out = <<>>
  /\ typed = <<>>
  /\ segments_str = <<>>
  /\ seg_out = <<>>

FrontIdle ==
  /\ frontend = "cli"
  /\ mode = "none"
  /\ remove_audio = FALSE
  /\ output_is_input = FALSE
  /\ user_segments = <<>>
  /\ input_exists = TRUE
  /\ ffmpeg_installed = TRUE
  /\ pc = "start"
  /\ exit_code = <<>>
  /\ console = <<>>
  /\ cut_calls = <<>>

\* the temp directory is absent, or left behind with a file in it
TempInit ==
  \E left_behind \in BOOLEAN :
    /\ temp_dir_exists = left_behind
    /\ temp_files = IF left_behind THEN {StaleFile} ELSE {}

\* the parser alone: a time string or a segment string is typed and parsed
InitParse ==
  /\ ParserInit
  /\ FrontIdle
  /\ CutterIdle /\ temp_dir_exists = FALSE /\ temp_files = {}
  /\ GuiAbsent
  /\ UploadIdle

SpecParse == InitParse /\ [][NextParse]_vars

\* one run of a front end
Init ==
  /\ ParserIdle
  /\ FrontInit
  /\ CutterIdle /\ TempInit
  /\ IF frontend = "gui" THEN GuiInit /\ ~temp_dir_exists ELSE GuiAbsent
  /\ UploadIdle

Next ==
  \/ CliMain
  \/ CliFinish
  \/ InteractiveCheckFfmpeg
  \/ \E exists \in BOOLEAN : InteractiveAskInput(exists)
  \/ \E url_given \in BOOLEAN, success \in DownloadResults : InteractiveSource(url_given, success)
  \/ \E answer \in RunInputs : InteractiveAskSegments(answer)
  \/ \E m \in Modes, silent \in BOOLEAN : InteractiveAskOptions(m, silent)
  \/ \E yes \in BOOLEAN : InteractiveConfirm(yes)
  \/ StartProcessing
  \/ \E text \in GuiEdits : EditSegments(text)
  \/ \E w \in 1..MaxRuns : ProcessVideo(w)
  \/ ProcessingError
  \/ \E confirmed \in BOOLEAN : CancelProcessing(confirmed)
  \/ Cutter

Spec == Init /\ [][Next]_vars

\* the same, with the cutter never left standing: cut_video_segments is
\* sequential code, and each subprocess.run it waits for returns
SpecFair == Init /\ [][Next]_vars /\ WF_vars(Cutter)

\* one call of upload_file
InitUpload ==
  /\ ParserIdle
  /\ FrontIdle
  /\ CutterIdle /\ temp_dir_exists = FALSE /\ temp_files = {}
  /\ GuiAbsent
  /\ UploadInit

NextUpload ==
  \/ UploadFile
  \/ \E ok \in BOOLEAN : ListFolders(ok)
  \/ \E ok \in BOOLEAN : CreateFolder(ok)
  \/ StartUpload
  \/ \E result \in ChunkResults : NextChunk(result)

SpecUpload == InitUpload /\ [][NextUpload]_vars

\* ====================================================== the parser's claims

\* the result of the call, once made
TimeResult == time_out[1]
SegResult == seg_out[1]

\* the spec's error kinds, read off the ValueError the code raises
ErrorKind(err) ==
  IF err.msg = "end not after start" THEN "InvalidRangeError" ELSE "FormatError"

NumColons(s) == Cardinality({i \in 1..Len(s) : s[i] = ":"})
NoDashIn(s) == \A i \in 1..Len(s) : s[i] # "-"
FirstDash(s) == CHOOSE i \in 1..Len(s) : s[i] = "-" /\ \A j \in 1..(i - 1) : s[j] # "-"
Blank(tok) == \A i \in 1..Len(tok) : tok[i] = " "

\* the token read alone
Alone(tok) == parse_segments(tok)
ValidToken(tok) == ~Blank(tok) /\ Alone(tok).ok
\* every token before the i-th is blank or valid
ReachedToken(i) == \A j \in 1..(i - 1) : Blank(typed[j]) \/ ValidToken(typed[j])

RECURSIVE PairsOf(_)
PairsOf(toks) ==
  IF toks = <<>> THEN <<>>
  ELSE (IF Blank(Head(toks)) THEN <<>> ELSE Alone(Head(toks)).val) \o PairsOf(Tail(toks))

NonBlankCount(toks) == Cardinality({i \in 1..Len(toks) : ~Blank(toks[i])})

\* C1: when every non-blank token is valid, parse_segments returns one pair
\* per non-blank token, in the order of the tokens, nothing reordered, merged
\* or dropped; the docstring's example gives (185,190), (2405,2410), (3785,3845).
C1_SegmentsInInputOrder ==
  seg_out # <<>> =>
    /\ (\A i \in 1..Len(typed) : Blank(typed[i]) \/ ValidToken(typed[i])) =>
         /\ SegResult.ok
         /\ Len(SegResult.val) = NonBlankCount(typed)
         /\ SegResult.val = PairsOf(typed)
    /\ typed = <<Tok1, Tok2, Tok3>> =>
         SegResult = Ok(<< <<185 * Scale, 190 * Scale>>,
                           <<2405 * Scale, 2410 * Scale>>,
                           <<3785 * Scale, 3845 * Scale>> >>)

\* C1 witness: a list returned with a later segment that starts before an
\* earlier one
C1_Witness ==
  /\ seg_out # <<>> /\ SegResult.ok /\ Len(SegResult.val) = 3
  /\ SegResult.val[2][1] < SegResult.val[1][1]
  /\ SegResult.val[3] = SegResult.val[2]

\* both halves of the token parse and the end is not after the start
RangeInverted(tok) ==
  LET t == Strip(tok)
  IN /\ ~NoDashIn(t)
     /\ LET d == FirstDash(t)
            a == parse_time_to_seconds(SubSeq(t, 1, d - 1))
            b == parse_time_to_seconds(SubSeq(t, d + 1, Len(t)))
        IN a.ok /\ b.ok /\ b.val <= a.val

C3_MissingDashRejected ==
  seg_out # <<>> =>
    /\ \A i \in 1..Len(typed) :
         (~Blank(typed[i]) /\ NoDashIn(typed[i])) =>
           /\ ~SegResult.ok
           /\ ReachedToken(i) =>
                /\ SegResult.err = [type |-> "ValueError", msg |-> "missing '-'",
                                    arg |-> Strip(typed[i])]
                /\ ErrorKind(SegResult.err) = "FormatError"
    /\ (Len(typed) = 1 /\ SegResult.ok /\ ~Blank(typed[1])) =>
         LET t == Strip(typed[1])
             d == FirstDash(t)
         IN SegResult.val = << <<parse_time_to_seconds(SubSeq(t, 1, d - 1)).val,
                                 parse_time_to_seconds(SubSeq(t, d + 1, Len(t))).val>> >>
    /\ typed = <<TokTwoDashes>> => SegResult = Ok(<< <<1 * Scale, 2 * Scale>> >>)

\* C3 witness: the missing '-' found between two valid tokens' places
C3_Witness ==
  /\ seg_out # <<>> /\ ~SegResult.ok
  /\ typed = <<Tok1, TokNoDash, Tok2>>
  /\ SegResult.err.msg = "missing '-'"

\* a time string of two or three fields of digits (a fraction allowed on the
\* seconds)
PlainField(f) == f # <<>> /\ AllDigits(f)
PlainTime(s) ==
  /\ \A i \in 1..Len(s) : s[i] \in Digits \cup {":"}
  /\ NumColons(s) \in {1, 2}
  /\ \A k \in 1..(NumColons(s) + 1) : PlainField(Split(s, ":")[k])

\* C4: an accepted time string is worth hours*3600 + minutes*60 + seconds,
\* two fields read as minutes:seconds, three as hours:minutes:seconds, and
\* every MM:SS or HH:MM:SS string of digits is accepted; "03:05" is 185 and
\* "1:03:05" is 3785.
C4_TimeIsHMS ==
  time_out # <<>> =>
    /\ PlainTime(time_str) => TimeResult.ok
    /\ TimeResult.ok =>
         LET f == Split(Strip(time_str), ":")
             n == NumColons(time_str) + 1
             h == IF n = 3 THEN ParseInt(f[1]).val ELSE 0
             m == ParseInt(f[n - 1]).val
             sec == ParseFloat(f[n]).val
         IN /\ n \in {2, 3}
            /\ TimeResult.val = (h * 3600 + m * 60) * Scale + sec
    /\ time_str = T_03_05 => TimeResult = Ok(185 * Scale)
    /\ time_str = T_1_03_05 => TimeResult = Ok(3785 * Scale)

\* C4 witness: "1:03:05" parsed
C4_Witness == time_out # <<>> /\ time_str = T_1_03_05 /\ TimeResult.ok

\* a half of the token has neither two nor three fields
BadFieldCount(s) == NumColons(s) + 1 \notin {2, 3}
TokenWithBadTime(tok) ==
  LET t == Strip(tok)
  IN /\ ~NoDashIn(t)
     /\ LET d == FirstDash(t)
        IN BadFieldCount(SubSeq(t, 1, d - 1)) \/ BadFieldCount(SubSeq(t, d + 1, Len(t)))

\* C5: a time string of one field, or of four or more, makes
\* parse_time_to_seconds fail with the format error naming the string, and
\* parse_segments fails on a string with a token that holds such a time.
C5_FieldCountRejected ==
  /\ (time_out # <<>> /\ BadFieldCount(time_str)) =>
       /\ TimeResult = Raise("ValueError", "time format", time_str)
       /\ ErrorKind(TimeResult.err) = "FormatError"
  /\ seg_out # <<>> =>
       \A i \in 1..Len(typed) : TokenWithBadTime(typed[i]) => ~SegResult.ok

\* C5 witness: a one-field time string rejected
C5_Witness ==
  /\ time_out # <<>> /\ Len(time_str) = 2 /\ NumColons(time_str) = 0
  /\ AllDigits(time_str) /\ ~TimeResult.ok

\* C6 (as claimed): every accepted time is non-negative with its minutes and
\* seconds fields below 60.
C6_AcceptedTimesInRange ==
  (time_out # <<>> /\ TimeResult.ok) =>
    LET f == Split(Strip(time_str), ":")
        n == Len(f)
    IN /\ TimeResult.val >= 0
       /\ ParseInt(f[n - 1]).val < 60
       /\ ParseFloat(f[n]).val < 60 * Scale

\* ================================================ the front ends' claims

\* every '|'-separated token of s is blank
AllTokensBlank(s) == \A i \in 1..Len(s) : s[i] \in {" ", "|"}

\* C7 (as claimed): a segment string whose tokens are all blank parses to the
\* empty list without an error, and no front end goes on with it: no call of
\* cut_video_segments carries zero segments, no GUI worker is started with
\* zero segments and the interactive main does not leave its segments prompt
\* with zero segments.
C7_EmptySetIsCallerError ==
  /\ AllTokensBlank(user_segments) => parse_segments(user_segments) = Ok(<<>>)
  /\ \A k \in 1..Len(cut_calls) : cut_calls[k].segments # <<>>
  /\ \A w \in 1..Len(workers) : workers[w].segments # <<>>
  /\ (frontend = "interactive" /\ pc \in {"ask_options", "confirm"}) =>
       parse_segments(user_segments).val # <<>>

\* ===================================================== the cutter's claims

\* the name the k-th segment file is to have, for k below 10
ExpectedSegmentFile(k) ==
  [dir |-> <<TempDir>>, name |-> <<"segment_", "0", "0", DigitChar(k), ".mp4">>]

CallDone(k) == tool_calls[k].result # <<>>
ExitCode(k) == tool_calls[k].result[1].returncode
Stderr(k) == tool_calls[k].result[1].stderr
CutFailedAt(k) ==
  /\ k \in 1..Len(tool_calls)
  /\ tool_calls[k].cmd.kind = "cut"
  /\ CallDone(k) /\ ExitCode(k) # 0

\* C8: when the concat call is made, the N cut calls have been made in input
\* order, each exited with 0, the k-th for segment k (its start, its length)
\* writing to segment_00k.mp4; the N files so produced are distinct and are
\* in the temp directory.
C8_OneFilePerSegment ==
  cpc = "concat_running" =>
    LET N == Len(segments)
    IN /\ Len(tool_calls) = N + 1
       /\ tool_calls[N + 1].cmd.kind = "concat"
       /\ \A k \in 1..N :
            /\ tool_calls[k].cmd.kind = "cut"
            /\ CallDone(k) /\ ExitCode(k) = 0
            /\ tool_calls[k].cmd.out = ExpectedSegmentFile(k)
            /\ tool_calls[k].cmd.ss = segments[k][1]
            /\ tool_calls[k].cmd.t = segments[k][2] - segments[k][1]
       /\ segment_files = [k \in 1..N |-> ExpectedSegmentFile(k)]
       /\ Cardinality({segment_files[k] : k \in 1..Len(segment_files)}) = N
       /\ \A k \in 1..N : ExpectedSegmentFile(k).name \in temp_files

\* C8 witness: the concat call under way after three cuts
C8_Witness == cpc = "concat_running" /\ Len(segments) = 3

\* C9: once the tool has exited non-zero on the cut of segment k, that call is
\* the last one made (no later cut, no concat), no manifest exists, the
\* finally block is entered with the RuntimeError that carries k and the
\* tool's stderr and with the files of segments 1..k-1 still in the temp
\* directory, and that error is what the call raises.
C9_CutFailureAborts ==
  \A k \in 1..Len(tool_calls) :
    CutFailedAt(k) =>
      LET err == [type |-> "RuntimeError", msg |-> "cut", arg |-> <<k, Stderr(k)>>]
      IN /\ Len(tool_calls) = k
         /\ idx = k
         /\ concat_list = <<>>
         /\ ConcatFile \notin temp_files
         /\ output_video = "absent"
         /\ cpc \in {"finally", "raised"}
         /\ pending = <<err>>
         /\ cpc = "finally" =>
              \A j \in 1..(k - 1) : ExpectedSegmentFile(j).name \in temp_files
         /\ cpc = "raised" => outcome = <<[kind |-> "raise", err |-> err]>>
         /\ pc = "exited" => exit_code = <<1>>

\* C9 witness: the cut of segment 2 of 3 has failed and the finally block is
\* about to run
C9_Witness ==
  /\ cpc = "finally" /\ Len(segments) = 3
  /\ CutFailedAt(2) /\ ExitCode(2) = -9

Said(text) == \E i \in 1..Len(console) : console[i].text = text

\* C10: a call that got past os.makedirs has run the finally block once when it
\* ends; either the temp directory and all in it are gone, or rmtree failed and
\* a warning was printed; in both cases the call returns after a concat that
\* exited 0 and raises the RuntimeError of the failed cut or concat otherwise.
C10_CleanupAlways ==
  (cpc \in {"returned", "raised"} /\ tool_calls # <<>>) =>
    LET last == Len(tool_calls)
        succeeded == tool_calls[last].cmd.kind = "concat" /\ ExitCode(last) = 0
    IN /\ cleanups = 1
       /\ Said("temp files removed") # Said("warning: cannot remove temp dir")
       /\ Said("temp files removed") => (~temp_dir_exists /\ temp_files = {})
       /\ succeeded <=> outcome[1].kind = "return"
       /\ succeeded <=> cpc = "returned"
       /\ ~succeeded =>
            /\ outcome[1].err.type = "RuntimeError"
            /\ outcome[1].err.msg = tool_calls[last].cmd.kind
            /\ outcome[1].err.arg[Len(outcome[1].err.arg)] = Stderr(last)

\* C10 witness: the concat failed, rmtree failed too, and the call raised
C10_Witness ==
  /\ cpc = "raised" /\ tool_calls # <<>>
  /\ tool_calls[Len(tool_calls)].cmd.kind = "concat"
  /\ Said("warning: cannot remove temp dir")
  /\ temp_files # {}

\* C11: a call of cut_video_segments whose input file does not exist raises
\* FileNotFoundError from a state in which no media-tool call has been made and
\* the finally block has not run, and the step that raises it leaves the temp
\* directory, its files, the manifest and the output as they were.
C11_MissingInputTouchesNothing ==
  /\ [](cpc \in {"check_ffmpeg", "check_input"} =>
          (tool_calls = <<>> /\ cleanups = 0 /\ concat_list = <<>> /\ TempInit))
  /\ []((outcome # <<>> /\ outcome[1].err.type = "FileNotFoundError") =>
          /\ cpc = "raised"
          /\ tool_calls = <<>> /\ cleanups = 0 /\ concat_list = <<>>
          /\ segment_files = <<>> /\ output_video = "absent"
          /\ TempInit)
  /\ [][(cpc = "check_input" /\ ~input_exists) =>
          /\ cpc' = "raised"
          /\ outcome'[1].kind = "raise"
          /\ outcome'[1].err.type = "FileNotFoundError"
          /\ UNCHANGED <<temp_dir_exists, temp_files, tool_calls, concat_list,
                         output_video, cleanups>>]_vars

\* C11 witness: the call has raised FileNotFoundError and there is no temp
\* directory
C11_Witness ==
  /\ cpc = "raised"
  /\ outcome[1].err.type = "FileNotFoundError"
  /\ ~input_exists /\ ~temp_dir_exists

ConcatCalls == {k \in 1..Len(tool_calls) : tool_calls[k].cmd.kind = "concat"}
CutCalls == {k \in 1..Len(tool_calls) : tool_calls[k].cmd.kind = "cut"}

\* the line of the manifest for the k-th segment file, for k below 10
ExpectedManifestLine(k) ==
  [file |-> [dir |-> <<Cwd, TempDir>>,
             name |-> <<"segment_", "0", "0", DigitChar(k), ".mp4">>]]

\* C12: no manifest exists before the concat call; from then on it has one
\* line per segment, the k-th being file '<absolute path of segment_00k.mp4>',
\* which is the absolute path of the file the k-th cut call wrote, and no line
\* occurs twice.
C12_ManifestListsSegmentFiles ==
  IF ConcatCalls = {}
  THEN concat_list = <<>>
  ELSE LET N == Len(segments)
       IN /\ Len(concat_list) = N
          /\ \A k \in 1..N :
               /\ concat_list[k] = ExpectedManifestLine(k)
               /\ concat_list[k].file.name = tool_calls[k].cmd.out.name
               /\ concat_list[k].file.dir = <<Cwd>> \o tool_calls[k].cmd.out.dir
          /\ Cardinality({concat_list[k] : k \in 1..N}) = N
          /\ ConcatFile \in temp_files \/ cpc \in {"returned", "raised"}

\* C12 witness: a call over three segments has returned with its manifest of
\* three lines written
C12_Witness == cpc = "returned" /\ Len(concat_list) = 3

\* C13: at most one concat call is made; it is the call after the N cut calls,
\* which have all returned 0, and the manifest is on disk when it starts; when
\* it exits non-zero the call of cut_video_segments raises RuntimeError with
\* its stderr, when it exits 0 nothing is raised; and no step of the run takes
\* away an output file that is there, whole or partial.
C13_ConcatOnceAfterAllCuts ==
  /\ [](/\ Cardinality(ConcatCalls) <= 1
        /\ \A j \in ConcatCalls :
             LET err == [type |-> "RuntimeError", msg |-> "concat", arg |-> <<Stderr(j)>>]
             IN /\ j = Len(segments) + 1
                /\ j = Len(tool_calls)
                /\ \A k \in 1..(j - 1) :
                     tool_calls[k].cmd.kind = "cut" /\ CallDone(k) /\ ExitCode(k) = 0
                /\ Len(concat_list) = Len(segments)
                /\ tool_calls[j].cmd.i = [dir |-> <<TempDir>>, name |-> ConcatFile]
                /\ cpc = "concat_running" => (~CallDone(j) /\ ConcatFile \in temp_files)
                /\ (CallDone(j) /\ ExitCode(j) # 0) =>
                     /\ cpc \in {"finally", "raised"}
                     /\ pending = <<err>>
                     /\ output_video \in {"absent", "partial"}
                     /\ cpc = "raised" => outcome = <<[kind |-> "raise", err |-> err]>>
                /\ (CallDone(j) /\ ExitCode(j) = 0) =>
                     /\ cpc \in {"finally", "returned"}
                     /\ pending = <<>>
                     /\ output_video = "complete")
  /\ [][output_video # "absent" => output_video' = output_video]_vars

\* C13 witness: the concat call failed leaving a partial output, the temp
\* directory has been removed, the call has raised and the output is still there
C13_Witness ==
  /\ cpc = "raised" /\ ConcatCalls # {}
  /\ output_video = "partial"
  /\ ~temp_dir_exists

\* ============================================== the orchestration's claims

\* the interactive main has gone on to the segments stage or beyond
PastSource == pc \in {"ask_segments", "ask_options", "confirm", "in_cutter"} \/ cut_calls # <<>>

\* C14 (as claimed): a failed stage ends the sequence. After a failed download
\* the interactive main does not go on to the segments, the cutter is not
\* called and the process does not exit with 0; the cutter is only called with
\* segments that parsed; after a failed cut no concat call is made; and a
\* call of the cutter that raised is followed by exit status 1.
C14_FailedStageStopsSequence ==
  /\ (frontend = "interactive" /\ Said("download failed")) =>
       (~PastSource /\ exit_code # <<0>>)
  /\ (frontend \in {"cli", "interactive"} /\ cut_calls # <<>>) =>
       parse_segments(user_segments).ok
  /\ (\E k \in CutCalls : CutFailedAt(k)) => ConcatCalls = {}
  /\ (frontend = "cli" /\ pc = "exited" /\ outcome # <<>> /\ outcome[1].kind = "raise") =>
       exit_code = <<1>>

\* ========================================================= the GUI's claims

\* C15 (as claimed): once the user has confirmed the cancellation while the
\* worker was still running, so that what the worker hands to the event loop
\* arrives after it, the window stays as cancel_processing left it as long as
\* no new run is started: label, progress bar, buttons and is_processing do
\* not change and no dialog of that run is shown.
C15_CancelledStaysCancelled ==
  [][(/\ progress_label = "cancelled"
      /\ after_queue # <<>>
      /\ ~Head(after_queue).active
      /\ Len(workers') = Len(workers)) =>
       UNCHANGED <<progress_label, progress_bar, process_btn, cancel_btn,
                   is_processing, dialog>>]_vars

\* every external call of the run did what it was asked: the media tool is
\* installed, the input file is there, no media-tool call exited non-zero and
\* the temp directory could be made
ExternalsSucceeded ==
  /\ ffmpeg_installed /\ input_exists
  /\ \A k \in 1..Len(tool_calls) : CallDone(k) => ExitCode(k) = 0
  /\ outcome # <<>> => outcome[1].err.type # "OSError"

\* the segments the run was started with are valid and not empty
ValidSegments(segs_text) ==
  parse_segments(segs_text).ok /\ parse_segments(segs_text).val # <<>>

\* the run has ended in failure: exit status 1, or the GUI's error handler
\* posted or run
RunFailed ==
  \/ exit_code = <<1>>
  \/ \E i \in 1..Len(after_queue) : after_queue[i].handler = "processing_error"
  \/ progress_label = "error"

\* C16 (as claimed, its safety part): a run with valid segments, started from
\* any front end, in which every external call succeeds does not fail; in the
\* GUI the runs meant are those whose worker was given at least one segment.
C16_ValidRunDoesNotFail ==
  /\ (frontend \in {"cli", "interactive"} /\ ValidSegments(user_segments) /\ ExternalsSucceeded)
       => ~RunFailed
  /\ (frontend = "gui" /\ ExternalsSucceeded
        /\ \A w \in 1..Len(workers) : workers[w].segments # <<>>)
       => ~RunFailed

\* ========================================================= the CLI's claims

LastPrinted == console[Len(console)]

\* C17: when the CLI process has exited, its status is 1 and the last line
\* printed reports the failure in each of these cases: the segment string did
\* not parse (the parser's error is printed), it parsed to no segment, the
\* media tool is missing, the input file is missing, a cut or the concat
\* exited non-zero, or the cutter raised anything else; otherwise the status
\* is 0, the cutter has returned and the output is complete.
C17_CliExitStatus ==
  (frontend = "cli" /\ pc = "exited") =>
    LET parsed == parse_segments(user_segments)
        raised == outcome # <<>> /\ outcome[1].kind = "raise"
        failure ==
          \/ ~parsed.ok
          \/ parsed.val = <<>>
          \/ ~ffmpeg_installed
          \/ ~input_exists
          \/ \E k \in 1..Len(tool_calls) : CallDone(k) /\ ExitCode(k) # 0
          \/ raised
    IN /\ exit_code \in {<<0>>, <<1>>}
       /\ failure <=> exit_code = <<1>>
       /\ exit_code = <<1>> =>
            /\ console # <<>>
            /\ LastPrinted.text \in {"error", "no segments to cut"}
            /\ ~parsed.ok => (LastPrinted = Printed("error", <<parsed.err>>) /\ cut_calls = <<>>)
            /\ (parsed.ok /\ parsed.val = <<>>) =>
                 (LastPrinted = Printed("no segments to cut", <<>>) /\ cut_calls = <<>>)
            /\ (parsed.ok /\ parsed.val # <<>>) =>
                 (raised /\ LastPrinted = Printed("error", <<outcome[1].err>>))
       /\ exit_code = <<0>> =>
            /\ cpc = "returned"
            /\ output_video = "complete"
            /\ ConcatCalls # {}

\* C17 witness: the CLI was given a string of blank tokens and has exited
\* with status 1 after saying that there is nothing to cut
C17_Witness ==
  /\ frontend = "cli" /\ pc = "exited"
  /\ user_segments = <<"|">>
  /\ exit_code = <<1>>

\* ==================================================== the modes' claims

\* what the claim has a cut call ask for: stream copy in fast mode and
\* re-encoding otherwise, and no audio stream when audio removal is chosen
VideoCodecFor(m) == IF m = "fast" THEN "copy" ELSE "libx264"
AudioFor(m, silent) == IF silent THEN "none" ELSE IF m = "fast" THEN "copy" ELSE "aac"

\* a call of cut_video_segments was turned down for the arguments it was given
CallRejected ==
  \/ \E i \in 1..Len(console) :
       console[i].err # <<>> /\ console[i].err[1].type = "TypeError"
  \/ \E i \in 1..Len(after_queue) : after_queue[i].err.type = "TypeError"

\* C18 (as claimed): the cutter takes the mode and the audio flag the front
\* end chose, so a call that passes them is not turned down, and every cut
\* call it makes asks for the codecs that go with them.
C18_ModeSelectsCodecs ==
  /\ \A k \in CutCalls :
       /\ tool_calls[k].cmd.cv = VideoCodecFor(mode)
       /\ tool_calls[k].cmd.ca = AudioFor(mode, remove_audio)
  /\ (\E c \in 1..Len(cut_calls) :
        cut_calls[c].keywords \cap {"mode", "remove_audio"} # {}) => ~CallRejected

\* ================================================ the sequencing claims

InFlight == {k \in 1..Len(tool_calls) : ~CallDone(k)}

\* C19: at most one media-tool call is in flight, and it is the last one
\* made; every call before the last has returned 0, so the cut of segment
\* k+1 and the concat call start only after the call before them has returned
\* 0; and a call is in flight exactly while the cutter waits in subprocess.run.
C19_OneToolCallAtATime ==
  /\ Cardinality(InFlight) <= 1
  /\ InFlight \subseteq {Len(tool_calls)}
  /\ \A k \in 1..(Len(tool_calls) - 1) : CallDone(k) /\ ExitCode(k) = 0
  /\ \A k \in CutCalls : k <= Len(segments) /\ tool_calls[k].cmd.out = ExpectedSegmentFile(k)
  /\ InFlight # {} <=> cpc \in {"cut_running", "concat_running"}

\* C19 witness: the cut of segment 2 is in flight and the cut of segment 1
\* has returned
C19_Witness ==
  /\ cpc = "cut_running" /\ idx = 2
  /\ InFlight = {2}
  /\ CallDone(1)

\* the worker threads that have been started and have not yet left
\* process_video
RunningWorkers == {w \in 1..Len(workers) : workers[w].at = "started"}

\* C20 (as claimed): whatever the user clicks, at most one worker thread of
\* the GUI is running at any time.
C20_OneWorkerAtATime == Cardinality(RunningWorkers) <= 1

\* C21: a run of the cutter, cleanup included, never writes to, overwrites or
\* deletes the source file: whatever the paths given, the file input_video
\* names is as it was before the run.
C21_SourceUntouched == ~source_written

\* a step in which the user confirms the cancel dialog: only cancel_processing
\* sets the label to "cancelled"
CancelConfirmed == progress_label # "cancelled" /\ progress_label' = "cancelled"

\* C22: cancellation in the GUI is cooperative: a confirmed cancel_processing
\* changes the is_processing flag and the widgets (buttons, progress bar and
\* label, the dialog shown) and nothing else: the worker threads, the events
\* they queued, the cutter and its external calls are as they were.
C22_CancelIsCooperative ==
  [][CancelConfirmed =>
       /\ ~is_processing'
       /\ UNCHANGED <<workers, after_queue, input_path_given, output_path_given>>
       /\ UNCHANGED <<upVars, parseVars, frontVars, cutVars>>]_vars

\* a run was cancelled and its worker thread is still running
C22_Witness ==
  /\ progress_label = "cancelled"
  /\ ~is_processing
  /\ \E w \in 1..Len(workers) : workers[w].at = "started"

\* ==================================================== the uploader's claims

\* the last request sent to the Drive API
LastApiCall == api_calls[Len(api_calls)]

FolderCalls == {k \in 1..Len(api_calls) : api_calls[k].api = "files.create folder"}
LookupCalls == {k \in 1..Len(api_calls) : api_calls[k].api = "files.list"}
ChunkCalls == {k \in 1..Len(api_calls) : api_calls[k].api = "next_chunk"}

\* C23: upload_file never raises for a missing file or a failed upload
\* request: it returns None for a missing file, having sent no request at
\* all, and None when a chunk request fails; it returns the id of the created
\* file only when the last chunk request brought the final response. A folder
\* is looked up by name only when a name is given, and it is created only
\* after a lookup that found no folder of that name.
C23_UploadReturnsIdOrNone ==
  /\ upload_out # <<>> =>
       /\ upload_out[1].kind = "return"
       /\ upload_out[1].val \in {None, FileId}
       /\ ~file_exists => upload_out[1].val = None /\ api_calls = <<>>
       /\ upload_out[1].val = None /\ file_exists =>
            LastApiCall.api = "next_chunk" /\ LastApiCall.outcome = "error"
       /\ upload_out[1].val = FileId =>
            /\ file_exists
            /\ response # <<>> /\ response[1].id = upload_out[1].val
            /\ LastApiCall.api = "next_chunk" /\ LastApiCall.outcome = "final"
            /\ \A k \in ChunkCalls : k # Len(api_calls) => api_calls[k].outcome = "progress"
  /\ folder_name = "" => LookupCalls = {} /\ FolderCalls = {}
  /\ \A k \in LookupCalls : k = 1 /\ api_calls[k].arg = folder_name
  /\ \A k \in FolderCalls :
       /\ k = 2
       /\ api_calls[1].api = "files.list" /\ api_calls[1].outcome = "ok"
       /\ api_calls[k].arg = folder_name
       /\ Len(drive_folders) = IF api_calls[k].outcome = "ok" THEN 1 ELSE 0

\* the file was uploaded into a folder the call had to create
C23_Witness ==
  /\ upload_out # <<>>
  /\ upload_out[1].val = FileId
  /\ FolderCalls # {}
  /\ request[1].parents # <<>>

\* ============================================== the GUI's widgets and runs

\* C24: in every state of the GUI the buttons mirror the flag: the start
\* button is disabled and the cancel button enabled exactly when
\* is_processing is true, the start button enabled and the cancel button
\* disabled exactly when it is false.
C24_ButtonsMirrorFlag ==
  frontend = "gui" =>
    /\ is_processing <=> (process_btn = "disabled" /\ cancel_btn = "normal")
    /\ ~is_processing <=> (process_btn = "normal" /\ cancel_btn = "disabled")

\* a second run is under way after the first was cancelled or failed
C24_Witness ==
  /\ frontend = "gui"
  /\ Len(workers) = 2
  /\ is_processing
  /\ process_btn = "disabled"
  /\ dialog # "none"

\* the event loop applies an event that a worker older than the latest run
\* handed to it
StaleEventApplied ==
  /\ after_queue # <<>>
  /\ after_queue' = Tail(after_queue)
  /\ Head(after_queue).worker < Len(workers)

\* C25: an event produced by a worker is applied to the window only while its
\* run is the current one: an event of a run that was cancelled and followed
\* by a newer run changes neither the progress label, nor is_processing, nor
\* the buttons of that newer run.
C25_StaleEventsIgnored ==
  [][StaleEventApplied =>
       UNCHANGED <<progress_label, is_processing, process_btn, cancel_btn>>]_vars

\* one of the five pre-checks of start_processing fails on what the window
\* holds: no input path, no output path, blank segment text, input file not
\* there, or segment text that parse_segments rejects
PreCheckFails ==
  /\ frontend = "gui"
  /\ \/ ~input_path_given
     \/ ~output_path_given
     \/ Strip(user_segments) = <<>>
     \/ ~input_exists
     \/ ~parse_segments(Strip(user_segments)).ok

\* C26: start_processing starts a worker only when every pre-check passes:
\* while one of them fails no step starts a worker thread, and a click on the
\* start button leaves is_processing, both buttons and the progress bar as
\* they were.
C26_FailedPreCheckStartsNothing ==
  /\ [][PreCheckFails => Len(workers') = Len(workers)]_vars
  /\ [][PreCheckFails /\ StartProcessing =>
          UNCHANGED <<is_processing, process_btn, cancel_btn, progress_bar>>]_vars

\* the start button was clicked on segment text that parse_segments rejects,
\* with both paths given and the input file there
C26_Witness ==
  /\ frontend = "gui"
  /\ dialog = "error: invalid segment format"
  /\ input_exists
  /\ workers = <<>>
  /\ ~is_processing /\ process_btn = "normal" /\ progress_bar = "stopped"

\* ================================================= the cutter's termination

CutterDone == cpc \in {"returned", "raised"}

\* why the call raised
RaisedCause == outcome[1].err.msg

\* the exceptions raised before the try block is entered
BeforeTry == {"ffmpeg missing", "video not found", "makedirs"}

\* the call has ended in one of two ways, an exception being one of causes;
\* the cut calls number at most N, the concat calls at most one, and the
\* finally block has run once exactly when the try block was entered
EndsInOneOf(causes) ==
  /\ Cardinality(CutCalls) <= Len(segments)
  /\ Cardinality(ConcatCalls) <= 1
  /\ cleanups <= 1
  /\ CutterDone =>
       /\ outcome # <<>>
       /\ outcome[1].kind \in {"return", "raise"}
       /\ outcome[1].kind = "return" <=> cpc = "returned"
       /\ \A k \in 1..Len(tool_calls) : CallDone(k)
       /\ cpc = "returned" =>
            /\ tool_calls # <<>>
            /\ Len(tool_calls) \in ConcatCalls
            /\ ExitCode(Len(tool_calls)) = 0
            /\ cleanups = 1
       /\ cpc = "raised" =>
            /\ RaisedCause \in causes
            /\ RaisedCause = "ffmpeg missing" => ~ffmpeg_installed
            /\ RaisedCause = "video not found" => ~input_exists
            /\ RaisedCause = "cut" => CutFailedAt(Len(tool_calls))
            /\ RaisedCause = "concat" =>
                 Len(tool_calls) \in ConcatCalls /\ ExitCode(Len(tool_calls)) # 0
            /\ cleanups = IF RaisedCause \in BeforeTry THEN 0 ELSE 1

====
